---- MODULE Spec2Model ----
(***************************************************************************)
(* A model of SM_batch_processor.py: SwissModelAPI.process_sequences and   *)
(* the methods it drives (submit_request, monitor_job_status,              *)
(* fetch_model_results, _download_and_extract).                            *)
(*                                                                         *)
(* Strings the code inspects (sequence identifiers, file names) are        *)
(* sequences of tokens: "cluster_" is one token, a digit is one token, an  *)
(* extension such as ".cif" is one token.                                  *)
(***************************************************************************)
EXTENDS Integers, Sequences, FiniteSets, TLC

\* ------------------------------------------------------------ bounds
\* Longest input (number of FASTA records) of the general specification.
MaxSeqs == 2
\* Longest "models" list of a status response.
MaxModels == 1
\* Input size and clock horizon of the request-budget specification.
BudgetSeqs == 101
MaxClock == 1

\* ------------------------------------------------------------ program constants
RAPID_RATE_LIMIT == 100
REQUEST_INTERVAL == 60
\* while attempt <= 5
MaxAttempts == 5
\* wait_time = attempt * 10
BackoffUnit == 10
\* ThreadPoolExecutor(max_workers=5), both pools
PoolSize == 5

\* ------------------------------------------------------------ values
\* Python's None (a missing project id, a monitor's "no result").
NoneVal == <<"None">>

DigitTokens == <<"0", "1", "2", "3", "4", "5", "6", "7", "8", "9">>
Digits == {DigitTokens[i] : i \in 1..10}
Digit(n) == DigitTokens[(n % 10) + 1]

\* Sequence identifiers of the inputs: two of cluster 3 and one without
\* "cluster_".
SeqUniverse ==
  { <<"cluster_", "3", "_medoid">>,
    <<"cluster_", "3", "_alt">>,
    <<"sample", "7">> }

\* The identifiers of the request-budget specification: seq000, seq001, ...
BudgetId(n) == <<"seq", Digit(n \div 100), Digit(n \div 10), Digit(n)>>

Range(q) == {q[i] : i \in DOMAIN q}

\* All sequences over S of length 0..n without repetition (the key order of
\* the dict _load_fasta_sequences returns).
RECURSIVE DistinctSeqs(_, _)
DistinctSeqs(S, n) ==
  IF n = 0 THEN { <<>> }
  ELSE LET shorter == DistinctSeqs(S, n - 1)
       IN shorter \cup
          UNION { { Append(q, x) : x \in S \ Range(q) } :
                  q \in {r \in shorter : Len(r) = n - 1} }

\* ------------------------------------------------------------ file naming
\* re.search(r'cluster_(\d+)', seq_id): the digit run after the first
\* "cluster_" that is followed by a digit; "unknown" when there is none.
RECURSIVE DigitRun(_, _)
DigitRun(id, i) ==
  IF i <= Len(id) /\ id[i] \in Digits
    THEN <<id[i]>> \o DigitRun(id, i + 1)
    ELSE <<>>

ClusterNumber(seq_id) ==
  LET hits == {i \in 1..Len(seq_id) :
                 /\ seq_id[i] = "cluster_"
                 /\ i < Len(seq_id)
                 /\ seq_id[i + 1] \in Digits}
  IN IF hits = {} THEN <<"unknown">>
     ELSE LET first == CHOOSE i \in hits : \A j \in hits : i <= j
          IN DigitRun(seq_id, first + 1)

\* f"{model_number:03}"
RECURSIVE Decimal(_)
Decimal(n) == IF n < 10 THEN <<Digit(n)>> ELSE Decimal(n \div 10) \o <<Digit(n)>>

Pad3(n) ==
  LET d == Decimal(n)
  IN IF Len(d) >= 3 THEN d ELSE [i \in 1..(3 - Len(d)) |-> "0"] \o d

SubFolder(file_type) == IF file_type = "modelcif" THEN "CIF" ELSE "PDB"
FileExtension(file_type) == IF file_type = "modelcif" THEN ".cif" ELSE ".pdb"

\* Tokens outside [A-Za-z0-9_.-].
UnsafeTokens == {"/", " ", ":", "|"}
sanitize_filename(name) ==
  [i \in DOMAIN name |-> IF name[i] \in UnsafeTokens THEN "_" ELSE name[i]]

ClusterFolder(seq_id, file_type) ==
  <<"out_dir", "/", "cluster_">> \o ClusterNumber(seq_id)
     \o <<"_model", "/", SubFolder(file_type)>>

SafeFilename(seq_id, model_number, file_type) ==
  sanitize_filename(<<"cluster_">> \o ClusterNumber(seq_id) \o <<"_model_">>
                      \o Pad3(model_number) \o <<FileExtension(file_type)>>)

\* filename = os.path.join(cluster_folder, safe_filename)
Filename(ref) ==
  ClusterFolder(ref.seq_id, ref.file_type) \o <<"/">>
     \o SafeFilename(ref.seq_id, ref.model_number, ref.file_type)

EndsWithGz(name) == Len(name) > 0 /\ name[Len(name)] = ".gz"
\* filename.replace(".gz", "")
ExtractedFilename(name) == SelectSeq(name, LAMBDA t : t # ".gz")

\* ------------------------------------------------------------ remote data
\* The URLs a status response may carry for one model file: a plain file or
\* a gzip-compressed one.
Url(file_type, model_number, gz) ==
  <<"https://swissmodel.expasy.org", "/", "model_">> \o Pad3(model_number)
     \o <<FileExtension(file_type)>> \o (IF gz THEN <<".gz">> ELSE <<>>)

NoUrl == <<>>
UrlChoices(file_type, n) ==
  {NoUrl, Url(file_type, n, FALSE), Url(file_type, n, TRUE)}

\* One entry of "models": a key that is absent is NoUrl.
ModelEntries(n) ==
  [modelcif_url : UrlChoices("modelcif", n),
   coordinates_url : UrlChoices("coordinates", n)]

RECURSIVE Manifests(_)
Manifests(n) ==
  IF n = 0 THEN { <<>> }
  ELSE LET shorter == Manifests(n - 1)
       IN shorter \cup
          { Append(m, e) : m \in {r \in shorter : Len(r) = n - 1},
                           e \in ModelEntries(n) }

\* The bytes a GET of url returns.
Content(url) == [src |-> url, compressed |-> EndsWithGz(url)]
\* gzip.open(...) copied to the extracted file.
Decompress(c) == [c EXCEPT !.compressed = FALSE]

\* The project id the service hands out for a sequence.
ProjectId(seq_id) == <<"project">> \o seq_id
\* Truthy, were the test of the project id left out.
TruthyAlways(project_id) == TRUE
\* if project_id:
Truthy(project_id) == project_id # NoneVal

\* What a POST to /user_template can come back with: HTTP 429, a 2xx body with
\* a project id, a 2xx body without one, or a RequestException (connection
\* error, timeout, raise_for_status on another status).
PostResponses == {"429", "ok", "ok_no_id", "error"}

\* status_json.get("status", "UNKNOWN")
StatusOf(body) == IF body.has_status THEN body.status ELSE "UNKNOWN"
\* IsTerminal, were "UNKNOWN" taken for a final status.
IsTerminalLoose(status) == status \in {"COMPLETED", "FAILED", "UNKNOWN"}
\* IsTerminal, were "FAILED" not taken for a final status.
IsTerminalCompletedOnly(status) == status = "COMPLETED"
\* if status in ["COMPLETED", "FAILED"]
IsTerminal(status) == status \in {"COMPLETED", "FAILED"}

\* A monitor's return value: the status JSON, or None.
NoResult == [kind |-> "None", status |-> "", models |-> <<>>]
Json(body) == [kind |-> "json", status |-> StatusOf(body), models |-> body.models]
\* What is remembered of a return value once the caller has used it.
Summary(status_json) == [kind |-> status_json.kind, status |-> status_json.status]
\* if status_json:
HasManifest(status_json) == status_json.kind = "json"

\* ModelData, were the coordinate URL looked at only when there is no
\* structure URL (elif for the second if).
RECURSIVE ModelDataElif(_, _, _)
ModelDataElif(seq_id, models, i) ==
  IF i > Len(models) THEN <<>>
  ELSE (IF models[i].modelcif_url # NoUrl
          THEN << [seq_id |-> seq_id, url |-> models[i].modelcif_url,
                   model_number |-> i, file_type |-> "modelcif"] >>
          ELSE IF models[i].coordinates_url # NoUrl
             THEN << [seq_id |-> seq_id, url |-> models[i].coordinates_url,
                      model_number |-> i, file_type |-> "coordinates"] >>
             ELSE <<>>)
       \o ModelDataElif(seq_id, models, i + 1)

\* fetch_model_results' model_data: (seq_id, url, i, file_type) per URL present.
RECURSIVE ModelData(_, _, _)
ModelData(seq_id, models, i) ==
  IF i > Len(models) THEN <<>>
  ELSE (IF models[i].modelcif_url # NoUrl
          THEN << [seq_id |-> seq_id, url |-> models[i].modelcif_url,
                   model_number |-> i, file_type |-> "modelcif"] >>
          ELSE <<>>)
       \o (IF models[i].coordinates_url # NoUrl
             THEN << [seq_id |-> seq_id, url |-> models[i].coordinates_url,
                      model_number |-> i, file_type |-> "coordinates"] >>
             ELSE <<>>)
       \o ModelData(seq_id, models, i + 1)

\* ------------------------------------------------------------ state
VARIABLES
  sequences,    \* self.sequences: the identifiers, in dict order
  mainPc,       \* where process_sequences is
  nsub,         \* how many executor.submit calls the dict comprehension made
  task,         \* per sequence: its submit_request future
  finishOrder,  \* the sequences in the order their futures finished
  completedQ,   \* as_completed: finished futures not yet yielded
  handled,      \* the sequences process_sequences unpacked, in order
  cur,          \* the sequence being monitored or fetched
  job,          \* per sequence: the remote job's status
  lastPoll,     \* per sequence: what the monitor's last poll observed
  monResult,    \* per sequence: what monitor_job_status returned
  atStart,      \* how many futures had finished when as_completed started
  manifest,     \* the models of the running fetch_model_results call
  dl,           \* the download tasks of the running fetch_model_results
  lock,         \* self.lock: 0, or the index in dl of its holder
  dirs,         \* directories of the output tree
  files,        \* files of the output tree, each with its content
  writes,       \* every (artifact, path) a download wrote
  clock,        \* seconds since the run began
  reqTimes      \* the time of every request sent

progVars == <<sequences, mainPc, nsub, task, finishOrder, completedQ, handled,
              cur, job, lastPoll, monResult, atStart, manifest, dl, lock, dirs,
              files, writes>>
budgetVars == <<clock, reqTimes>>
vars == <<sequences, mainPc, nsub, task, finishOrder, completedQ, handled,
          cur, job, lastPoll, monResult, atStart, manifest, dl, lock, dirs,
          files, writes, clock, reqTimes>>

Ids == Range(sequences)
NoSeq == <<>>

Pending == [kind |-> "pending"]
\* return seq_id, project_id
Pair(seq_id, project_id) ==
  [kind |-> "pair", seq_id |-> seq_id, project_id |-> project_id]
\* Falling off the end of submit_request: Python returns a bare None.
BareNone == [kind |-> "none"]

InitWith(input) ==
  /\ sequences = input
  /\ mainPc = "start"
  /\ nsub = 0
  /\ task = [s \in Range(input) |-> [pc |-> "new", attempt |-> 1, wait |-> 0, prev |-> "none",
                                 last |-> "none", result |-> Pending]]
  /\ finishOrder = <<>>
  /\ completedQ = <<>>
  /\ handled = <<>>
  /\ cur = NoSeq
  /\ job = [s \in Range(input) |-> "absent"]
  /\ lastPoll = [s \in Range(input) |-> "none"]
  /\ monResult = [s \in Range(input) |-> [kind |-> "pending", status |-> ""]]
  /\ atStart = 0
  /\ manifest = <<>>
  /\ dl = <<>>
  /\ lock = 0
  /\ dirs = { <<"out_dir">> }
  /\ files = {}
  /\ writes = {}
  /\ clock = 0
  /\ reqTimes = <<>>

Init == \E input \in DistinctSeqs(SeqUniverse, MaxSeqs) : InitWith(input)

\* ------------------------------------------------------------ the submission pool
LoopStarted == mainPc \notin {"start", "submit", "raised_value_error"}

\* Finish, were the waiter to hand out the newest finished future first.
FinishLifo(s, last, result) ==
  /\ task' = [task EXCEPT ![s] = [pc |-> "done", attempt |-> 0, wait |-> 0,
                                  prev |-> task[s].last, last |-> last,
                                  result |-> result]]
  /\ finishOrder' = Append(finishOrder, s)
  /\ completedQ' = IF LoopStarted THEN <<s>> \o completedQ ELSE completedQ

\* set_result on a future: as_completed's waiter hears of it once installed.
\* (the call's local attempt is gone with its frame); prev and last are the
\* two most recent responses the call received.
Finish(s, last, result) ==
  /\ task' = [task EXCEPT ![s] = [pc |-> "done", attempt |-> 0, wait |-> 0,
                                  prev |-> task[s].last, last |-> last,
                                  result |-> result]]
  /\ finishOrder' = Append(finishOrder, s)
  /\ completedQ' = IF LoopStarted THEN Append(completedQ, s) ELSE completedQ

Running == {s \in Ids : task[s].pc \in {"post", "sleep"}}
FirstQueued(s) ==
  \E i \in 1..Len(sequences) :
     /\ sequences[i] = s
     /\ task[s].pc = "queued"
     /\ \A j \in 1..(i - 1) : task[sequences[j]].pc # "queued"

\* A pool worker takes the oldest queued submit_request: attempt = 1.
WorkerTakeStep(s) ==
  /\ FirstQueued(s)
  /\ Cardinality(Running) < PoolSize
  /\ task' = [task EXCEPT ![s] = [@ EXCEPT !.pc = "post", !.attempt = 1]]
  /\ UNCHANGED <<sequences, atStart, manifest, mainPc, nsub, finishOrder, completedQ, handled, cur,
                 job, lastPoll, monResult, dl, lock, dirs, files, writes>>

\* LoopAgain, were the loop to allow one attempt more.
LoopAgainOnceMore(attempt) == attempt <= MaxAttempts + 1

\* while attempt <= 5
LoopAgain(attempt) == attempt <= MaxAttempts

\* PostStep, were a request error retried with backoff like a 429.
PostStepRetrying(s, resp) ==
  /\ task[s].pc = "post"
  /\ IF resp \in {"429", "error"}
       THEN /\ task' = [task EXCEPT ![s] = [@ EXCEPT !.pc = "sleep",
                                                      !.prev = task[s].last,
                                                      !.last = resp,
                                                      !.wait = task[s].attempt * BackoffUnit]]
            /\ UNCHANGED <<finishOrder, completedQ, job>>
       ELSE IF resp = "ok"
         THEN /\ Finish(s, resp, Pair(s, ProjectId(s)))
              /\ job' = [job EXCEPT ![s] = "PENDING"]
         ELSE /\ Finish(s, resp, Pair(s, NoneVal))
              /\ UNCHANGED job
  /\ UNCHANGED <<sequences, atStart, manifest, mainPc, nsub, handled, cur, lastPoll,
                 monResult, dl, lock, dirs, files, writes>>

\* One requests.post and the handling of its response.
PostStep(s, resp) ==
  /\ task[s].pc = "post"
  /\ IF resp = "429"
       THEN \* wait_time = attempt * 10; time.sleep(wait_time)
            /\ task' = [task EXCEPT ![s] = [@ EXCEPT !.pc = "sleep",
                                                      !.prev = task[s].last,
                                                      !.last = resp,
                                                      !.wait = task[s].attempt * BackoffUnit]]
            /\ UNCHANGED <<finishOrder, completedQ, job>>
       ELSE IF resp = "ok"
         THEN /\ Finish(s, resp, Pair(s, ProjectId(s)))
              /\ job' = [job EXCEPT ![s] = "PENDING"]
         ELSE \* .get("project_id") of a body without one, or the except branch
              /\ Finish(s, resp, Pair(s, NoneVal))
              /\ UNCHANGED job
  /\ UNCHANGED <<sequences, atStart, manifest, mainPc, nsub, handled, cur, lastPoll, monResult,
                 dl, lock, dirs, files, writes>>

\* The backoff sleep ends: attempt += 1; continue.
WakeStep(s) ==
  /\ task[s].pc = "sleep"
  /\ IF LoopAgain(task[s].attempt + 1)
       THEN /\ task' = [task EXCEPT ![s] = [@ EXCEPT !.pc = "post",
                                                      !.attempt = @ + 1,
                                                      !.wait = 0]]
            /\ UNCHANGED <<finishOrder, completedQ>>
       ELSE \* the loop ends and the function falls off its end
            Finish(s, task[s].last, BareNone)
  /\ UNCHANGED <<sequences, atStart, manifest, mainPc, nsub, handled, cur, job, lastPoll, monResult,
                 dl, lock, dirs, files, writes>>

\* ------------------------------------------------------------ process_sequences
\* MainCheckStep, were the test of self.sequences left out.
MainCheckStepUnchecked ==
  /\ mainPc = "start"
  /\ mainPc' = "submit"
  /\ UNCHANGED <<sequences, atStart, manifest, nsub, task, finishOrder, completedQ,
                 handled, cur, job, lastPoll, monResult, dl, lock, dirs, files,
                 writes>>

\* if not self.sequences: raise ValueError
MainCheckStep ==
  /\ mainPc = "start"
  /\ mainPc' = IF Len(sequences) = 0 THEN "raised_value_error" ELSE "submit"
  /\ UNCHANGED <<sequences, atStart, manifest, nsub, task, finishOrder, completedQ, handled, cur,
                 job, lastPoll, monResult, dl, lock, dirs, files, writes>>

\* One executor.submit of the dict comprehension.
MainSubmitStep ==
  /\ mainPc = "submit"
  /\ nsub < Len(sequences)
  /\ nsub' = nsub + 1
  /\ task' = [task EXCEPT ![sequences[nsub + 1]] = [@ EXCEPT !.pc = "queued"]]
  /\ UNCHANGED <<sequences, atStart, manifest, mainPc, finishOrder, completedQ, handled, cur,
                 job, lastPoll, monResult, dl, lock, dirs, files, writes>>

Done == {s \in Ids : task[s].pc = "done"}

\* as_completed(future_to_seq) starts: the futures already finished are
\* collected into a set, so they come out in no particular order; the waiter
\* then queues the others as they finish.
MainAsCompletedStep ==
  /\ mainPc = "submit"
  /\ nsub = Len(sequences)
  /\ \E q \in DistinctSeqs(Done, Cardinality(Done)) :
        /\ Len(q) = Cardinality(Done)
        /\ completedQ' = q
  /\ atStart' = Cardinality(Done)
  /\ mainPc' = "next"
  /\ UNCHANGED <<sequences, manifest, nsub, task, finishOrder, handled, cur,
                 job, lastPoll, monResult, dl, lock, dirs, files, writes>>

\* seq_id, project_id = future.result(): a pair unpacks, a bare None raises
\* TypeError.
Unpacks(result) == result.kind = "pair"

\* The for loop takes the next finished future and unpacks its result.
MainNextStep ==
  /\ mainPc = "next"
  /\ Len(handled) < Len(sequences)
  /\ completedQ # <<>>
  /\ LET s == Head(completedQ)
         result == task[s].result
     IN /\ completedQ' = Tail(completedQ)
        /\ handled' = Append(handled, s)
        /\ IF ~Unpacks(result)
             THEN mainPc' = "unwind" /\ cur' = NoSeq
             ELSE IF Truthy(result.project_id)
               THEN mainPc' = "monitor_sleep" /\ cur' = result.seq_id
               ELSE mainPc' = "next" /\ cur' = NoSeq
  /\ UNCHANGED <<sequences, atStart, manifest, nsub, task, finishOrder, job, lastPoll, monResult,
                 dl, lock, dirs, files, writes>>

\* The loop is exhausted, the with block ends (every future is done) and the
\* summary is printed.
MainSummaryStep ==
  /\ mainPc = "next"
  /\ Len(handled) = Len(sequences)
  /\ mainPc' = "done"
  /\ UNCHANGED <<sequences, atStart, manifest, nsub, task, finishOrder, completedQ, handled, cur,
                 job, lastPoll, monResult, dl, lock, dirs, files, writes>>

\* An exception leaves the with block: the executor's __exit__ waits for every
\* submitted future, then the exception leaves process_sequences.
MainUnwindStep ==
  /\ mainPc = "unwind"
  /\ Done = Ids
  /\ mainPc' = "raised_type_error"
  /\ UNCHANGED <<sequences, atStart, manifest, nsub, task, finishOrder, completedQ, handled, cur,
                 job, lastPoll, monResult, dl, lock, dirs, files, writes>>

\* ------------------------------------------------------------ the remote job
JobAdvanceStep(s) ==
  /\ \/ job[s] = "PENDING" /\ job' = [job EXCEPT ![s] = "RUNNING"]
     \/ job[s] = "RUNNING" /\ job' = [job EXCEPT ![s] = "COMPLETED"]
     \/ job[s] = "RUNNING" /\ job' = [job EXCEPT ![s] = "FAILED"]
  /\ UNCHANGED <<sequences, atStart, manifest, mainPc, nsub, task, finishOrder, completedQ, handled,
                 cur, lastPoll, monResult, dl, lock, dirs, files, writes>>

\* ------------------------------------------------------------ monitor_job_status
\* time.sleep(10)
MonitorSleepStep ==
  /\ mainPc = "monitor_sleep"
  /\ mainPc' = "monitor_get"
  /\ UNCHANGED <<sequences, atStart, manifest, nsub, task, finishOrder, completedQ, handled, cur,
                 job, lastPoll, monResult, dl, lock, dirs, files, writes>>

\* The bodies the status endpoint can answer with for a job: its status (with
\* a models list once COMPLETED), no status key, or a string the code does
\* not know.
StatusBodies(s) ==
  (IF job[s] = "COMPLETED"
     THEN {[has_status |-> TRUE, status |-> "COMPLETED", models |-> m] :
             m \in Manifests(MaxModels)}
     ELSE {[has_status |-> TRUE, status |-> job[s], models |-> <<>>]})
  \cup {[has_status |-> FALSE, status |-> "", models |-> <<>>],
        [has_status |-> TRUE, status |-> "QUEUED", models |-> <<>>]}

\* The download tasks executor.map creates, none started; printed is the last
\* line a task has written to the log.
NewDownloads(model_data) ==
  [i \in DOMAIN model_data |->
     [ref |-> model_data[i], pc |-> "queued", printed |-> "nothing"]]

\* A poll failed: except requests.RequestException, print, loop.
MonitorErrorStep ==
  /\ mainPc = "monitor_get"
  /\ lastPoll' = [lastPoll EXCEPT ![cur] = "error"]
  /\ mainPc' = "monitor_sleep"
  /\ UNCHANGED <<sequences, atStart, manifest, nsub, task, finishOrder, completedQ, handled, cur,
                 job, monResult, dl, lock, dirs, files, writes>>

\* A poll answered; on a terminal status the monitor returns and
\* process_sequences goes on: fetch_model_results for a manifest (it builds
\* model_data and hands it to executor.map), the next future otherwise.
MonitorGetStep(body) ==
  /\ mainPc = "monitor_get"
  /\ body \in StatusBodies(cur)
  /\ lastPoll' = [lastPoll EXCEPT ![cur] = StatusOf(body)]
  /\ IF IsTerminal(StatusOf(body))
       THEN LET status_json ==
                  IF StatusOf(body) = "COMPLETED" THEN Json(body) ELSE NoResult
                model_data ==
                  IF HasManifest(status_json)
                    THEN ModelData(cur, status_json.models, 1)
                    ELSE <<>>
            IN /\ monResult' = [monResult EXCEPT ![cur] = Summary(status_json)]
               /\ IF HasManifest(status_json)
                    THEN /\ mainPc' = "fetch"
                         /\ manifest' = status_json.models
                         /\ dl' = NewDownloads(model_data)
                         /\ cur' = cur
                    ELSE /\ mainPc' = "next"
                         /\ UNCHANGED <<manifest, dl>>
                         /\ cur' = NoSeq
       ELSE /\ mainPc' = "monitor_sleep"
            /\ UNCHANGED <<monResult, manifest, dl, cur>>
  /\ UNCHANGED <<sequences, atStart, nsub, task, finishOrder, completedQ, handled,
                 job, lock, dirs, files, writes>>

\* ------------------------------------------------------------ the download pool
DlTerminal == {"saved", "extracted", "failed", "error"}
DlRunning == {i \in DOMAIN dl : dl[i].pc \in {"makedirs", "wait_lock", "get", "write"}}

\* A download worker takes the oldest queued task and, having computed the
\* names, enters os.makedirs(cluster_folder, exist_ok=True).
DlTakeStep(i) ==
  /\ mainPc = "fetch"
  /\ i \in DOMAIN dl
  /\ dl[i].pc = "queued"
  /\ \A j \in 1..(i - 1) : dl[j].pc # "queued"
  /\ Cardinality(DlRunning) < PoolSize
  /\ dl' = [dl EXCEPT ![i].pc = "makedirs"]
  /\ UNCHANGED <<sequences, atStart, manifest, mainPc, nsub, task, finishOrder, completedQ, handled,
                 cur, job, lastPoll, monResult, lock, dirs, files, writes>>

\* os.makedirs returns: the cluster folder and its CIF or PDB subfolder exist.
DlMakedirsStep(i) ==
  /\ i \in DOMAIN dl
  /\ dl[i].pc = "makedirs"
  /\ LET folder == ClusterFolder(dl[i].ref.seq_id, dl[i].ref.file_type)
     IN dirs' = dirs \cup {folder, SubSeq(folder, 1, Len(folder) - 2)}
  /\ dl' = [dl EXCEPT ![i].pc = "wait_lock"]
  /\ UNCHANGED <<sequences, atStart, manifest, mainPc, nsub, task, finishOrder, completedQ, handled,
                 cur, job, lastPoll, monResult, lock, files, writes>>

\* DlAcquireStep, were the lock not waited for.
DlAcquireStepUnguarded(i) ==
  /\ i \in DOMAIN dl
  /\ dl[i].pc = "wait_lock"
  /\ lock' = i
  /\ dl' = [dl EXCEPT ![i].pc = "get"]
  /\ UNCHANGED <<sequences, atStart, manifest, mainPc, nsub, task, finishOrder,
                 completedQ, handled, cur, job, lastPoll, monResult, dirs, files,
                 writes>>

\* with self.lock:
DlAcquireStep(i) ==
  /\ i \in DOMAIN dl
  /\ dl[i].pc = "wait_lock"
  /\ lock = 0
  /\ lock' = i
  /\ dl' = [dl EXCEPT ![i].pc = "get"]
  /\ UNCHANGED <<sequences, atStart, manifest, mainPc, nsub, task, finishOrder, completedQ, handled,
                 cur, job, lastPoll, monResult, dirs, files, writes>>

\* DlGetStep, were the lock released by hand after the write only, so that a
\* failed request leaves it held.
DlGetStepLeaking(i, ok) ==
  /\ i \in DOMAIN dl
  /\ dl[i].pc = "get"
  /\ IF ok
       THEN dl' = [dl EXCEPT ![i].pc = "write"]
       ELSE dl' = [dl EXCEPT ![i].pc = "failed",
                             ![i].printed = "Failed to download"]
  /\ UNCHANGED <<sequences, atStart, manifest, mainPc, nsub, task, finishOrder,
                 completedQ, handled, cur, job, lastPoll, monResult, lock, dirs,
                 files, writes>>

\* requests.get(url) and raise_for_status(): the bytes, or a RequestException,
\* which is caught and printed; the with block then releases the lock.
DlGetStep(i, ok) ==
  /\ i \in DOMAIN dl
  /\ dl[i].pc = "get"
  /\ IF ok
       THEN dl' = [dl EXCEPT ![i].pc = "write"] /\ lock' = lock
       ELSE /\ dl' = [dl EXCEPT ![i].pc = "failed",
                                 ![i].printed = "Failed to download"]
            /\ lock' = 0
  /\ UNCHANGED <<sequences, atStart, manifest, mainPc, nsub, task, finishOrder, completedQ, handled,
                 cur, job, lastPoll, monResult, dirs, files, writes>>

\* The file system after open(path, "wb").write(content).
WriteFile(fs, path, content) ==
  {f \in fs : f.path # path} \cup {[path |-> path, content |-> content]}
\* The file system after os.remove(path).
RemoveFile(fs, path) == {f \in fs : f.path # path}
FileContent(fs, path) == (CHOOSE f \in fs : f.path = path).content

\* The response's bytes are written to filename; a name ending in ".gz" is
\* then extracted and removed. An OSError is not caught: it ends the task, and
\* the with block releases the lock.
DlWriteStep(i, ok) ==
  /\ i \in DOMAIN dl
  /\ dl[i].pc = "write"
  /\ lock' = 0
  /\ IF ok
       THEN LET ref == dl[i].ref
                filename == Filename(ref)
                written == WriteFile(files, filename, Content(ref.url))
            IN /\ writes' = writes \cup {[ref |-> ref, path |-> filename]}
               /\ IF EndsWithGz(filename)
                    THEN LET extracted_filename == ExtractedFilename(filename)
                         IN /\ files' = RemoveFile(
                                          WriteFile(written, extracted_filename,
                                             Decompress(FileContent(written, filename))),
                                          filename)
                            /\ dl' = [dl EXCEPT ![i].pc = "extracted",
                                                 ![i].printed = "Extracted"]
                    ELSE /\ files' = written
                         /\ dl' = [dl EXCEPT ![i].pc = "saved",
                                              ![i].printed = "Saved to"]
       ELSE /\ dl' = [dl EXCEPT ![i].pc = "error"]
            /\ UNCHANGED <<files, writes>>
  /\ UNCHANGED <<sequences, atStart, manifest, mainPc, nsub, task, finishOrder, completedQ, handled,
                 cur, job, lastPoll, monResult, dirs>>

\* FetchEndStep, were the executor shut down without waiting for its tasks.
FetchEndStepNoWait ==
  /\ mainPc = "fetch"
  /\ mainPc' = "next"
  /\ dl' = <<>>
  /\ manifest' = <<>>
  /\ cur' = NoSeq
  /\ UNCHANGED <<sequences, atStart, nsub, task, finishOrder, completedQ, handled,
                 job, lastPoll, monResult, lock, dirs, files, writes>>

\* fetch_model_results returns: at once when model_data is empty ("No models
\* found"), else when the with block ends, once every task has ended; map's
\* results are never read. Back in the for loop.
FetchEndStep ==
  /\ mainPc = "fetch"
  /\ \A i \in DOMAIN dl : dl[i].pc \in DlTerminal
  /\ mainPc' = "next"
  /\ dl' = <<>>
  /\ manifest' = <<>>
  /\ cur' = NoSeq
  /\ UNCHANGED <<sequences, atStart, nsub, task, finishOrder, completedQ, handled,
                 job, lastPoll, monResult, lock, dirs, files, writes>>

\* ------------------------------------------------------------ specifications
WorkerTake == \E s \in Ids : WorkerTakeStep(s) /\ UNCHANGED budgetVars
Post == \E s \in Ids, resp \in PostResponses : PostStep(s, resp) /\ UNCHANGED budgetVars
Wake == \E s \in Ids : WakeStep(s) /\ UNCHANGED budgetVars
MainCheck == MainCheckStep /\ UNCHANGED budgetVars
MainSubmit == MainSubmitStep /\ UNCHANGED budgetVars
MainAsCompleted == MainAsCompletedStep /\ UNCHANGED budgetVars
MainNext == MainNextStep /\ UNCHANGED budgetVars
MainSummary == MainSummaryStep /\ UNCHANGED budgetVars
MainUnwind == MainUnwindStep /\ UNCHANGED budgetVars
JobAdvance == \E s \in Ids : JobAdvanceStep(s) /\ UNCHANGED budgetVars
MonitorSleep == MonitorSleepStep /\ UNCHANGED budgetVars
MonitorError == MonitorErrorStep /\ UNCHANGED budgetVars
MonitorGet ==
  /\ mainPc = "monitor_get"
  /\ \E body \in StatusBodies(cur) : MonitorGetStep(body) /\ UNCHANGED budgetVars
DlTake == \E i \in DOMAIN dl : DlTakeStep(i) /\ UNCHANGED budgetVars
DlMakedirs == \E i \in DOMAIN dl : DlMakedirsStep(i) /\ UNCHANGED budgetVars
DlAcquire == \E i \in DOMAIN dl : DlAcquireStep(i) /\ UNCHANGED budgetVars
DlGet == \E i \in DOMAIN dl, ok \in BOOLEAN : DlGetStep(i, ok) /\ UNCHANGED budgetVars
DlWrite == \E i \in DOMAIN dl, ok \in BOOLEAN : DlWriteStep(i, ok) /\ UNCHANGED budgetVars
FetchEnd == FetchEndStep /\ UNCHANGED budgetVars

Next ==
  \/ MainCheck
  \/ MainSubmit
  \/ MainAsCompleted
  \/ MainNext
  \/ MainSummary
  \/ MainUnwind
  \/ WorkerTake
  \/ Post
  \/ Wake
  \/ JobAdvance
  \/ MonitorSleep
  \/ MonitorError
  \/ MonitorGet
  \/ DlTake
  \/ DlMakedirs
  \/ DlAcquire
  \/ DlGet
  \/ DlWrite
  \/ FetchEnd

Spec == Init /\ [][Next]_vars

\* ------------------------------------------------------------ the request budget
\* A run against a service that answers every submission at once with a
\* project id, on the schedule where the dict comprehension has submitted
\* every task before the first worker starts and one worker posts at a time.
\* Every behaviour of SpecBudget is, but for the clock and the log of request
\* times it adds, a behaviour of the program.
BudgetInput == [i \in 1..BudgetSeqs |-> BudgetId(i - 1)]
InitBudget == InitWith(BudgetInput)

BudgetTake ==
  /\ nsub = Len(sequences)
  /\ Running = {}
  /\ \E s \in Ids : WorkerTakeStep(s)
  /\ UNCHANGED budgetVars

BudgetPost ==
  /\ \E s \in Ids : PostStep(s, "ok")
  /\ reqTimes' = Append(reqTimes, clock)
  /\ clock' = clock

Tick ==
  /\ clock < MaxClock
  /\ clock' = clock + 1
  /\ UNCHANGED progVars
  /\ UNCHANGED reqTimes

NextBudget ==
  \/ MainCheck
  \/ MainSubmit
  \/ BudgetTake
  \/ BudgetPost
  \/ Tick

SpecBudget == InitBudget /\ [][NextBudget]_vars

\* ------------------------------------------------------------ the fair run
\* The run of a FASTA file with one record, with the download pool's threads
\* scheduled fairly: a worker that can take a task, create its folders, take
\* the free lock or finish its write eventually does, every HTTP GET
\* eventually returns, and the with block of fetch_model_results ends once
\* its tasks have.
InitOne == \E s \in SeqUniverse : InitWith(<<s>>)
SpecFair ==
  /\ InitOne
  /\ [][Next]_vars
  /\ WF_vars(DlTake)
  /\ WF_vars(DlMakedirs)
  /\ WF_vars(DlAcquire)
  /\ WF_vars(DlGet)
  /\ WF_vars(DlWrite)
  /\ WF_vars(FetchEnd)

\* ------------------------------------------------------------ claims
Returned(s) == task[s].pc = "done"
\* submit_request gave the sequence a project id.
HasProjectId(s) ==
  /\ Returned(s)
  /\ task[s].result.kind = "pair"
  /\ task[s].result.project_id # <<"None">>
\* submit_request ended without a project id.
SubmissionFailed(s) == Returned(s) /\ ~HasProjectId(s)
\* process_sequences has returned or raised.
RunEnded == mainPc \in {"done", "raised_value_error", "raised_type_error"}
Monitoring(s) == cur = s /\ mainPc \in {"monitor_sleep", "monitor_get"}

\* C1: when a sequence's submission fails (a request failure, or 429 on all
\* five attempts), process_sequences does not raise, and by the end of the
\* run every sequence that got a project id has been monitored to its end
\* (and with that, on COMPLETED, handed to fetch_model_results).
C1_SubmissionFailureIsolated ==
  (\E f \in Ids : SubmissionFailed(f)) =>
     /\ mainPc # "raised_type_error"
     /\ RunEnded => \A s \in Ids : HasProjectId(s) => monResult[s].kind # "pending"

\* C2: a submit_request whose fifth attempt was answered 429 too returns the
\* pair (seq_id, None): the sequence id and no project id.
C2_RateLimitExceededIsPair ==
  [][\A s \in Ids :
       (task[s].pc = "sleep" /\ task[s].attempt = 5 /\ task'[s].pc = "done")
          => task'[s].result = Pair(s, <<"None">>)]_vars

\* The for loop takes s's future next (and, s having a project id, starts
\* monitoring it).
Handle(s) ==
  /\ completedQ # <<>>
  /\ Head(completedQ) = s
  /\ MainNext

\* C3: pipelines are independent: while one sequence's job is being monitored,
\* every other sequence that holds a project id and is not handled yet can
\* have its own monitoring started.
C3_PipelinesIndependent ==
  \A a \in Ids, b \in Ids :
     (a # b /\ Monitoring(a) /\ HasProjectId(b)
        /\ b \notin Range(handled))
       => ENABLED Handle(b)

RequestsInWindow(w) ==
  Cardinality({i \in DOMAIN reqTimes :
                 w <= reqTimes[i] /\ reqTimes[i] < w + REQUEST_INTERVAL})

\* C4: every window of 60 consecutive seconds holds at most 100 requests.
C4_RequestBudget ==
  \A w \in 0..clock : RequestsInWindow(w) <= RAPID_RATE_LIMIT

\* C5: a run over a non-empty input ends with the summary printed, whatever
\* the sequences' outcomes: it never ends any other way.
C5_RunEndsWithSummary ==
  (Len(sequences) > 0 /\ RunEnded) => mainPc = "done"

\* C6: no two distinct artifacts (sequence, model index, kind) are written to
\* the same path.
C6_DestinationUnique ==
  \A v \in writes, w \in writes :
     v.path = w.path =>
        /\ v.ref.seq_id = w.ref.seq_id
        /\ v.ref.model_number = w.ref.model_number
        /\ v.ref.file_type = w.ref.file_type

\* A download worker is in an operation that changes the output tree.
Mutating(i) == dl[i].pc \in {"makedirs", "write"}

\* C7: at most one download worker is creating a directory or writing a file,
\* and each one that is holds the lock.
C7_OutputTreeMutex ==
  /\ Cardinality({i \in DOMAIN dl : Mutating(i)}) <= 1
  /\ \A i \in DOMAIN dl : Mutating(i) => lock = i

HoldsAt(path, content) == \E f \in files : f.path = path /\ f.content = content

\* C8: after a successful download, an artifact whose URL ends in ".gz" is at
\* the final name decompressed and nowhere compressed; any other artifact is
\* at the final name as downloaded.
C8_GzipExtracted ==
  \A i \in DOMAIN dl :
     dl[i].pc \in {"saved", "extracted"} =>
        LET url == dl[i].ref.url
            final == ExtractedFilename(Filename(dl[i].ref))
        IN IF url[Len(url)] = ".gz"
             THEN /\ HoldsAt(final, [src |-> url, compressed |-> FALSE])
                  /\ ~\E f \in files : f.content = [src |-> url, compressed |-> TRUE]
             ELSE HoldsAt(final, [src |-> url, compressed |-> FALSE])

\* C9: monitor_job_status has returned only if its last poll observed
\* COMPLETED or FAILED; it returned the status JSON exactly on COMPLETED and
\* None exactly on FAILED; after a poll that failed or observed anything else
\* (UNKNOWN, PENDING, RUNNING, an unrecognized string) it is still polling.
C9_MonitorStateMachine ==
  \A s \in Ids :
     /\ monResult[s].kind # "pending" => lastPoll[s] \in {"COMPLETED", "FAILED"}
     /\ monResult[s].kind = "json" <=> lastPoll[s] = "COMPLETED"
     /\ monResult[s].kind = "json" => monResult[s].status = "COMPLETED"
     /\ monResult[s].kind = "None" <=> lastPoll[s] = "FAILED"
     /\ lastPoll[s] \notin {"none", "COMPLETED", "FAILED"} =>
           Monitoring(s) /\ monResult[s].kind = "pending"

\* One monitor has returned the status JSON and another None.
C9_Witness ==
  \E s \in Ids, t \in Ids :
     /\ monResult[s].kind = "json"
     /\ monResult[t].kind = "None"

\* A download task exists, or has written, for the sequence.
DownloadStarted(s) ==
  \/ \E i \in DOMAIN dl : dl[i].ref.seq_id = s
  \/ \E w \in writes : w.ref.seq_id = s

\* C10: a sequence is polled only once its submission returned a project id;
\* a download exists for it only once its monitor returned the COMPLETED
\* status JSON, so never after a failed submission or a FAILED job.
C10_PipelineOrder ==
  \A s \in Ids :
     /\ (Monitoring(s) \/ lastPoll[s] # "none") => HasProjectId(s)
     /\ DownloadStarted(s) =>
           /\ HasProjectId(s)
           /\ monResult[s] = [kind |-> "json", status |-> "COMPLETED"]
           /\ job[s] = "COMPLETED"

\* A download of one sequence has written its file, and a sequence whose
\* submission failed has been handled.
C10_Witness ==
  \E s \in Ids, t \in Ids :
     /\ \E w \in writes : w.ref.seq_id = s
     /\ SubmissionFailed(t)
     /\ t \in Range(handled)

\* A download task that ended in a failure: a request error that was caught,
\* or an error of the write or the extraction.
DownloadFailed(i) == dl[i].pc \in {"failed", "error"}

\* C11: when one artifact's download fails (request error, or an error while
\* the file is written or decompressed) the failure is logged, the task has
\* left the lock to its siblings, and the fetch is still waiting for them:
\* nothing was raised.
C11_DownloadFailureIsolated ==
  \A i \in DOMAIN dl :
     DownloadFailed(i) =>
        /\ dl[i].printed = "Failed to download"
        /\ lock # i
        /\ mainPc = "fetch"

\* A worker pool exists: process_sequences has passed its check, or a task
\* has been handed to a pool.
PoolCreated ==
  \/ mainPc \notin {"start", "raised_value_error"}
  \/ nsub > 0
  \/ dl # <<>>
\* A request has been sent: a task has left the pool's queue, a job has been
\* polled or a download started.
RequestSent ==
  \/ \E s \in Ids : task[s].pc \notin {"new", "queued"} \/ lastPoll[s] # "none"
  \/ dl # <<>>

\* C12: with an empty mapping process_sequences raises the no-sequences error
\* (after its check it is nowhere else), and no pool was created and no
\* request sent; with a non-empty mapping it never raises that error.
C12_PreflightEmptyInput ==
  /\ Len(sequences) = 0 =>
        /\ mainPc \in {"start", "raised_value_error"}
        /\ ~PoolCreated
        /\ ~RequestSent
  /\ Len(sequences) > 0 => mainPc # "raised_value_error"

\* process_sequences has raised the no-sequences error.
C12_Witness ==
  /\ mainPc = "raised_value_error"
  /\ Len(sequences) = 0

\* C13: once an attempt of submit_request has failed with anything but HTTP
\* 429, the call has returned (seq_id, None) and so sends no other POST; a
\* call that is about to POST again, or is backing off, has been answered
\* with nothing but 429 so far. This holds whatever the earlier attempts were
\* answered with.
C13_NoRetryOutside429 ==
  \A s \in Ids :
     /\ task[s].last = "error" =>
           /\ task[s].pc = "done"
           /\ task[s].result = Pair(s, NoneVal)
     /\ task[s].pc = "sleep" => task[s].last = "429"
     /\ task[s].pc = "post" => task[s].last \in {"none", "429"}

\* A request error ended a submission whose attempt before was answered
\* with 429.
C13_Witness ==
  \E s \in Ids :
     /\ task[s].pc = "done"
     /\ task[s].prev = "429"
     /\ task[s].last = "error"
     /\ task[s].result = Pair(s, NoneVal)

\* The place of x in a sequence without repetitions.
Pos(q, x) == CHOOSE i \in 1..Len(q) : q[i] = x
\* a's submission finished before b's.
FinishedBefore(a, b) ==
  /\ a \in Range(finishOrder)
  /\ b \in Range(finishOrder)
  /\ Pos(finishOrder, a) < Pos(finishOrder, b)
\* The for loop took a's result, and took it before b's.
HandledBefore(a, b) ==
  /\ a \in Range(handled)
  /\ b \in Range(handled) => Pos(handled, a) < Pos(handled, b)
\* b's submission finished after as_completed had started.
FinishedInLoop(b) ==
  /\ b \in Range(finishOrder)
  /\ Pos(finishOrder, b) > atStart

\* C14: for any two sequences A and B, if A's submission finished before B's
\* then B's result is handled only after A's.
C14_CompletionOrder ==
  \A a \in Ids, b \in Ids :
     (FinishedBefore(a, b) /\ b \in Range(handled)) => HandledBefore(a, b)

\* C14, amended: for any two sequences A and B, if A's submission finished
\* before B's and B's finished after as_completed had started, then B's result
\* is handled only after A's; the results that were already there when
\* as_completed started come first, in no particular order.
C14_CompletionOrderInLoop ==
  \A a \in Ids, b \in Ids :
     (FinishedBefore(a, b) /\ FinishedInLoop(b) /\ b \in Range(handled)) =>
        HandledBefore(a, b)

\* Two results were handled, the second of a submission that finished after
\* as_completed had started.
C14_Witness ==
  \E a \in Ids, b \in Ids :
     /\ FinishedBefore(a, b)
     /\ FinishedInLoop(b)
     /\ handled = <<a, b>>

\* The URLs of a manifest: (1-based index of the model, key, URL).
UrlsPresent(models) ==
  {[model_number |-> i, key |-> "modelcif_url", url |-> models[i].modelcif_url] :
      i \in {j \in DOMAIN models : models[j].modelcif_url # NoUrl}}
  \cup
  {[model_number |-> i, key |-> "coordinates_url", url |-> models[i].coordinates_url] :
      i \in {j \in DOMAIN models : models[j].coordinates_url # NoUrl}}
\* The download tasks made for one URL of the manifest.
TasksOf(u) ==
  {i \in DOMAIN dl : /\ dl[i].ref.url = u.url
                     /\ dl[i].ref.model_number = u.model_number
                     /\ dl[i].ref.seq_id = cur}
\* The path's folder is the CIF (PDB) subfolder.
InSubFolder(path, sub) ==
  \E n \in 1..(Len(path) - 1) : path[n] = sub /\ path[n + 1] = "/"

\* C15: while fetch_model_results runs, its download tasks are exactly one
\* per URL of the manifest, each with the 1-based index of its model (so the
\* two of a model with both URLs share it); what a task wrote lies in the CIF
\* subfolder for a structure URL and in the PDB subfolder for a coordinate
\* URL; for a manifest without any URL there is no task and the call can
\* return.
C15_ManifestToRefs ==
  mainPc = "fetch" =>
     /\ \A u \in UrlsPresent(manifest) : Cardinality(TasksOf(u)) = 1
     /\ Len(dl) = Cardinality(UrlsPresent(manifest))
     /\ \A u \in UrlsPresent(manifest) : \A i \in TasksOf(u) :
           \A w \in writes :
              w.ref = dl[i].ref =>
                 InSubFolder(w.path, IF u.key = "modelcif_url" THEN "CIF" ELSE "PDB")
     /\ UrlsPresent(manifest) = {} => (dl = <<>> /\ ENABLED FetchEnd)

\* The fetch of a model with both URLs: two tasks with the same index, both
\* of which have written.
C15_Witness ==
  /\ mainPc = "fetch"
  /\ Len(dl) = 2
  /\ dl[1].ref.model_number = dl[2].ref.model_number
  /\ dl[1].ref.file_type # dl[2].ref.file_type
  /\ \A i \in DOMAIN dl : \E w \in writes : w.ref = dl[i].ref

\* C16: in one submit_request call the POST about to be sent is the first to
\* the fifth, never a sixth; the wait after the k-th 429 answer (k = 1..5) is
\* k x 10 seconds; and a POST that follows a wait is the next attempt, so the
\* waits of one call are 10, 20, 30, 40, 50 seconds in this order.
C16_BackoffSchedule ==
  /\ [](\A s \in Ids :
          /\ task[s].pc = "post" => task[s].attempt \in 1..5
          /\ task[s].pc = "sleep" =>
                /\ task[s].attempt \in 1..5
                /\ task[s].wait = task[s].attempt * 10)
  /\ [][\A s \in Ids :
          /\ (task[s].pc = "sleep" /\ task'[s].pc = "post") =>
                task'[s].attempt = task[s].attempt + 1
          /\ (task[s].pc = "post" /\ task'[s].pc = "sleep") =>
                /\ task'[s].attempt = task[s].attempt
                /\ task'[s].wait > task[s].wait
          /\ (task[s].pc = "new" /\ task'[s].pc = "post") => task'[s].attempt = 1
       ]_vars

\* The fifth POST of a call was answered with 429 and the call waits 50 s.
C16_Witness ==
  \E s \in Ids :
     /\ task[s].pc = "sleep"
     /\ task[s].attempt = 5
     /\ task[s].wait = 50

\* C17: once a poll of a sequence's project has observed COMPLETED or FAILED
\* the monitor of that project is over, so no other status request is sent
\* for it, and the status observed last stays what it is.
C17_TerminalStatusFinal ==
  /\ [](\A s \in Ids : lastPoll[s] \in {"COMPLETED", "FAILED"} => ~Monitoring(s))
  /\ [][\A s \in Ids :
          lastPoll[s] \in {"COMPLETED", "FAILED"} => lastPoll'[s] = lastPoll[s]
       ]_vars

\* One project was observed FAILED, and the run has gone on to poll another.
C17_Witness ==
  \E s \in Ids, t \in Ids :
     /\ s # t
     /\ lastPoll[s] = "FAILED"
     /\ Monitoring(t)
     /\ lastPoll[t] \notin {"none", "COMPLETED", "FAILED"}

\* Every download task of the fetch has ended: saved, extracted or failed.
AllDownloadsEnded ==
  \A i \in DOMAIN dl : dl[i].pc \in {"saved", "extracted", "failed", "error"}

\* C18: fetch_model_results returns only in a state where every download
\* task it started has ended; so whenever process_sequences is anywhere but
\* inside the fetch (the next result, a monitor, the final summary) no
\* download is running and none holds the lock.
C18_FetchIsBarrier ==
  /\ [](mainPc # "fetch" => (AllDownloadsEnded /\ lock = 0))
  /\ [][(mainPc = "fetch" /\ mainPc' # "fetch") => AllDownloadsEnded]_vars

\* The summary was printed after a fetch whose two downloads both wrote.
C18_Witness ==
  /\ mainPc = "done"
  /\ \E v \in writes, w \in writes :
        /\ v.ref.seq_id = w.ref.seq_id
        /\ v.ref.file_type # w.ref.file_type
  /\ AllDownloadsEnded

\* A download worker is in the HTTP GET or in the write of its artifact.
Transferring(i) == dl[i].pc \in {"get", "write"}

\* C19: at most one download worker of a fetch is in its HTTP GET or writing
\* its file, and that one holds the lock; while it does, every other worker
\* that has got as far waits for the lock.
C19_DownloadsSerialized ==
  /\ Cardinality({i \in DOMAIN dl : Transferring(i)}) <= 1
  /\ \A i \in DOMAIN dl : Transferring(i) => lock = i
  /\ \A i \in DOMAIN dl : Transferring(i) => ~ENABLED DlAcquire

\* One worker is in its GET with the lock while its sibling waits for it.
C19_Witness ==
  \E i \in DOMAIN dl, j \in DOMAIN dl :
     /\ dl[i].pc = "get"
     /\ lock = i
     /\ dl[j].pc = "wait_lock"

\* C20: the lock is held by a download worker exactly while that worker is in
\* the guarded section (its GET or its write): a worker that left it, having
\* saved, extracted, failed or raised, does not hold it. Hence, with every
\* HTTP request returning, a worker that waits for the lock eventually is in
\* the section itself, and a fetch that has begun eventually returns.
C20_LockNeverLeaked ==
  /\ [](\A i \in DOMAIN dl : (lock = i) <=> Transferring(i))
  /\ [](lock # 0 => lock \in DOMAIN dl)
  /\ \A i \in 1..(2 * MaxModels) :
        (i \in DOMAIN dl /\ dl[i].pc = "wait_lock")
           ~> (i \in DOMAIN dl /\ dl[i].pc = "get")
  /\ (mainPc = "fetch") ~> (mainPc = "next")

\* A worker has left the guarded section with a failure and its sibling, which
\* had to wait, is in it now.
C20_Witness ==
  \E i \in DOMAIN dl, j \in DOMAIN dl :
     /\ DownloadFailed(i)
     /\ dl[j].pc = "get"
     /\ lock = j

====
